---- MODULE Spec2Model ----
(***************************************************************************)
(* Model of complete_app.py: the three backend functions (test_groq_api,   *)
(* scrape_website, ask_groq) as operators, and the Streamlit handlers that *)
(* mutate st.session_state as actions.                                     *)
(*                                                                         *)
(* A Python str is a sequence of atoms (one-character strings, or whole    *)
(* words where only word-level content matters).  The scraped text is kept *)
(* as its length: [chars |-> n, marker |-> b] is a text of n characters,   *)
(* followed by the truncation marker when b.                               *)
(***************************************************************************)
EXTENDS Integers, Sequences, FiniteSets, TLC

VARIABLES groq_client, api_validated, website_scraped, website_content,
          website_url, messages, chat_history, last, origin

vars == <<groq_client, api_validated, website_scraped, website_content,
          website_url, messages, chat_history, last, origin>>

session == <<groq_client, api_validated, website_scraped, website_content,
             website_url, messages, chat_history>>

----------------------------------------------------------------------------
(* Program constants *)

\* len(website_text) > 15000
MaxChars == 15000

\* len(website_text) < 200
MinChars == 200

\* len("\n\n[Content truncated...]")
MarkerLen == 24

\* chat_history[-4:]
ContextWindow == 4

\* len(chat_history) > 8 ; chat_history[-8:]
HistoryCap == 8

----------------------------------------------------------------------------
(* Bounds of the model *)

\* exchanges (question + reply) the display history may hold
MaxExchanges == 5

\* failed exchanges the display history may hold
MaxErrors == 1

\* longest history handed to ask_groq when it is called directly
MaxHist == 10

----------------------------------------------------------------------------
(* Python str and list primitives *)

\* st.session_state.groq_client: None, or Groq(api_key=...)
None == [client |-> FALSE, api_key |-> <<>>]
Groq(api_key) == [client |-> TRUE, api_key |-> api_key]

Whitespace == {" ", "\n"}

RECURSIVE lstrip(_)
lstrip(s) ==
    IF Len(s) > 0 /\ Head(s) \in Whitespace THEN lstrip(Tail(s)) ELSE s

RECURSIVE rstrip(_)
rstrip(s) ==
    IF Len(s) > 0 /\ s[Len(s)] \in Whitespace
    THEN rstrip(SubSeq(s, 1, Len(s) - 1))
    ELSE s

\* str.strip()
strip(s) == rstrip(lstrip(s))

\* str.lower(), atom by atom
LowerAtom(a) ==
    CASE a = "Authentication" -> "authentication"
      [] a = "Rate" -> "rate"
      [] a = "Limit" -> "limit"
      [] OTHER -> a

lower(s) == [i \in 1..Len(s) |-> LowerAtom(s[i])]

\* sub in s
Contains(s, sub) ==
    \E i \in 1..(Len(s) + 1) :
        /\ i + Len(sub) - 1 <= Len(s)
        /\ SubSeq(s, i, i + Len(sub) - 1) = sub

\* s.startswith(prefix)
startswith(s, prefix) ==
    /\ Len(prefix) <= Len(s)
    /\ SubSeq(s, 1, Len(prefix)) = prefix

\* lst[-n:]
LastN(lst, n) ==
    SubSeq(lst, IF Len(lst) > n THEN Len(lst) - n + 1 ELSE 1, Len(lst))

\* not s  (empty string is falsy)
Falsy(s) == Len(s) = 0

Msg(role, content) == [role |-> role, content |-> content]

----------------------------------------------------------------------------
(* The provider: outcome of one chat.completions.create call *)

ErrAuth401 == <<"Error code:", "401", "Invalid", "API", "Key">>
ErrAuthWord == <<"Authentication", "failed">>
ErrRate == <<"Rate", "Limit", "reached">>
ErrConn == <<"Connection", "error.">>

ProviderErrors == {ErrAuth401, ErrAuthWord, ErrRate, ErrConn}

Completed(text) == [ok |-> TRUE, text |-> text, err |-> <<>>]
Raised(err) == [ok |-> FALSE, text |-> <<>>, err |-> err]

\* generated texts, before ask_groq strips them
Answers == {<<"yes", " ">>}

TrialResponses == {Completed(<<"ok">>)} \cup {Raised(e) : e \in ProviderErrors}
AskResponses == {Completed(a) : a \in Answers} \cup {Raised(e) : e \in ProviderErrors}

----------------------------------------------------------------------------
(* test_groq_api *)

MsgEmptyKey == <<"API key cannot be empty">>
MsgValidKey == <<"API key is valid!">>
MsgInvalidKey == <<"Invalid API key. Please check and try again.">>

\* the one-message list of the trial call
TrialMessages == <<Msg("user", <<"test">>)>>

\* only the word "authentication" marks a bad key
test_groq_api_No401(api_key, resp) ==
    IF Falsy(api_key) \/ Len(strip(api_key)) = 0
    THEN [success |-> FALSE, message |-> MsgEmptyKey, calls |-> <<>>]
    ELSE IF resp.ok
    THEN [success |-> TRUE, message |-> MsgValidKey, calls |-> <<TrialMessages>>]
    ELSE IF Contains(lower(resp.err), <<"authentication">>)
    THEN [success |-> FALSE, message |-> MsgInvalidKey, calls |-> <<TrialMessages>>]
    ELSE [success |-> FALSE, message |-> <<"Error: ">> \o resp.err,
          calls |-> <<TrialMessages>>]

\* result['calls'] is not part of the Python dict: it lists the requests the
\* call sent to the provider
test_groq_api(api_key, resp) ==
    IF Falsy(api_key) \/ Len(strip(api_key)) = 0
    THEN [success |-> FALSE, message |-> MsgEmptyKey, calls |-> <<>>]
    ELSE IF resp.ok
    THEN [success |-> TRUE, message |-> MsgValidKey, calls |-> <<TrialMessages>>]
    ELSE IF Contains(lower(resp.err), <<"authentication">>) \/ Contains(resp.err, <<"401">>)
    THEN [success |-> FALSE, message |-> MsgInvalidKey, calls |-> <<TrialMessages>>]
    ELSE [success |-> FALSE, message |-> <<"Error: ">> \o resp.err,
          calls |-> <<TrialMessages>>]

----------------------------------------------------------------------------
(* scrape_website *)

Http == <<"h", "t", "t", "p">>
HttpScheme == <<"h", "t", "t", "p", ":", "/", "/">>
HttpsScheme == <<"h", "t", "t", "p", "s", ":", "/", "/">>

NoText == [chars |-> 0, marker |-> FALSE]

\* len(website_text)
TextLen(t) == t.chars + (IF t.marker THEN MarkerLen ELSE 0)

\* the URL handed to requests.get
RequestUrl(url) ==
    IF ~startswith(url, Http) THEN HttpsScheme \o url ELSE url

\* outcomes of requests.get + raise_for_status + parsing + text cleaning: an
\* exception, or a page whose cleaned text has `chars` characters.  requests
\* refuses a URL that has no http(s):// scheme.
Page(n) == [kind |-> "page", chars |-> n]
Exc(kind) == [kind |-> kind, chars |-> 0]

PageLens == {0, MinChars - 1, MinChars, MaxChars, MaxChars + 1, MaxChars + 5000}

RequestsGet(u) ==
    IF startswith(u, HttpScheme) \/ startswith(u, HttpsScheme)
    THEN {Exc("Timeout"), Exc("ConnectionError"), Exc("HTTPError")}
             \cup {Page(n) : n \in PageLens}
    ELSE {Exc("MissingSchema")}

\* the marker is appended to the whole text
Truncate_NoCut(n) == [chars |-> n, marker |-> n > MaxChars]

\* if len(website_text) > 15000: website_text[:15000] + marker
Truncate(n) ==
    IF n > MaxChars THEN [chars |-> MaxChars, marker |-> TRUE]
    ELSE [chars |-> n, marker |-> FALSE]

MsgNotEnough == <<"Could not extract enough content. Try a different URL.">>
MsgTimeout == <<"Request timeout. Website took too long to respond.">>
MsgConnection == <<"Connection error. Check your internet or try a different URL.">>

\* result['requested'] is not part of the Python dict: the URL requests.get
\* was given
scrape_website(url, fetch) ==
    LET requested == RequestUrl(url)
        website_text == Truncate(fetch.chars)
    IN  IF fetch.kind = "page"
        THEN IF TextLen(website_text) = 0 \/ TextLen(website_text) < MinChars
             THEN [success |-> FALSE, message |-> MsgNotEnough,
                   content |-> NoText, requested |-> requested]
             ELSE [success |-> TRUE,
                   message |-> <<"Successfully scraped! Extracted",
                                 ToString(TextLen(website_text)), "characters.">>,
                   content |-> website_text, requested |-> requested]
        ELSE IF fetch.kind = "Timeout"
        THEN [success |-> FALSE, message |-> MsgTimeout,
              content |-> NoText, requested |-> requested]
        ELSE IF fetch.kind = "ConnectionError"
        THEN [success |-> FALSE, message |-> MsgConnection,
              content |-> NoText, requested |-> requested]
        ELSE [success |-> FALSE, message |-> <<"Error: ", fetch.kind>>,
              content |-> NoText, requested |-> requested]

----------------------------------------------------------------------------
(* ask_groq *)

MsgValidQuestion == <<"Please enter a valid question.">>
MsgAskInvalidKey == <<"Invalid API key. Please check your key.">>
MsgRateLimit == <<"Rate limit exceeded. Please wait and try again.">>

\* the question is not stripped before the test
EmptyQuestion_NoStrip(question) == Falsy(question)

\* if not question or len(question.strip()) == 0
EmptyQuestion(question) == Falsy(question) \/ Len(strip(question)) = 0

\* the f-string of the system message
SystemPrompt(website_url_, website_content_) ==
    <<"You are a helpful AI assistant", "WEBSITE URL:">> \o website_url_
        \o <<"WEBSITE CONTENT:", ToString(website_content_.chars)>>
        \o (IF website_content_.marker THEN <<"[Content truncated...]">> ELSE <<>>)
        \o <<"INSTRUCTIONS:">>

\* the window is taken from the front of the history
BuildMessages_Oldest(website_url_, website_content_, question, history) ==
    <<Msg("system", SystemPrompt(website_url_, website_content_))>>
        \o (IF Len(history) > 0
            THEN SubSeq(history, 1, IF Len(history) > ContextWindow
                                    THEN ContextWindow ELSE Len(history))
            ELSE <<>>)
        \o <<Msg("user", question)>>

\* the list built before the call
BuildMessages(website_url_, website_content_, question, history) ==
    <<Msg("system", SystemPrompt(website_url_, website_content_))>>
        \o (IF Len(history) > 0 THEN LastN(history, ContextWindow) ELSE <<>>)
        \o <<Msg("user", question)>>

\* result['calls'] and result['history'] are not part of the Python dict: the
\* message lists the call sent to the provider, and the chat_history list
\* (passed by reference) as the call leaves it
ask_groq(client, website_url_, website_content_, question, history, resp) ==
    IF EmptyQuestion(question)
    THEN [success |-> FALSE, answer |-> MsgValidQuestion, calls |-> <<>>,
          history |-> history]
    ELSE
      LET msgs == BuildMessages(website_url_, website_content_, question, history)
      IN  IF client = None
          THEN [success |-> FALSE,
                answer |-> <<"Error: ", "'NoneType' object has no attribute 'chat'">>,
                calls |-> <<>>, history |-> history]
          ELSE IF resp.ok
          THEN [success |-> TRUE, answer |-> strip(resp.text), calls |-> <<msgs>>,
                history |-> history]
          ELSE
            LET error_msg ==
                  IF Contains(lower(resp.err), <<"authentication">>)
                  THEN MsgAskInvalidKey
                  ELSE IF Contains(lower(resp.err), <<"rate", "limit">>)
                  THEN MsgRateLimit
                  ELSE resp.err
            IN  [success |-> FALSE, answer |-> <<"Error: ">> \o error_msg,
                 calls |-> <<msgs>>, history |-> history]

----------------------------------------------------------------------------
(* Inputs the user can type or click *)

Keys == {<<>>, <<" ">>, <<"g", "s", "k">>}

UrlBare == <<"a", ".", "i", "o">>
UrlHttps == HttpsScheme \o <<"a">>
UrlHttp == HttpScheme \o <<"a">>
UrlHttpBare == <<"h", "t", "t", "p", ".", "c", "a", "t">>
UrlFtp == <<"f", "t", "p", ":", "/", "/", "a">>

Urls == {<<>>, UrlBare, UrlHttps, UrlHttp, UrlHttpBare, UrlFtp}

\* what a session meets: the provider and the web answer only when called
SessionTrials(k) ==
    IF Len(test_groq_api(k, Completed(<<"ok">>)).calls) = 0 THEN {Raised(<<>>)}
    ELSE {Completed(<<"ok">>), Raised(ErrAuth401), Raised(ErrConn)}

SessionUrls == {<<>>, UrlBare, UrlHttps, UrlHttpBare}

SessionFetches(u) ==
    IF ~api_validated \/ Falsy(u) THEN {Exc("NotCalled")}
    ELSE {f \in RequestsGet(RequestUrl(u)) :
             /\ f.kind = "page" => f.chars \in {MinChars - 1, MaxChars + 1}
             /\ f.kind # "HTTPError"}

SessionAsks(q) ==
    IF Len(strip(q)) = 0 THEN {Raised(<<>>)}
    ELSE {Completed(a) : a \in Answers} \cup {Raised(ErrRate)}

Questions == {<<>>, <<" ", " ", " ">>, <<"h", "i">>}

\* one of the six quick-question buttons (they differ in text only)
quick_questions == {<<"What is this website about?">>}

----------------------------------------------------------------------------
(* st.session_state and the handlers *)

\* what the last handler did: its name, the function it called (if any) with
\* the input and the outside world's answer, and the function's result
Did(op, arg, env, res) == [op |-> op, arg |-> arg, env |-> env, res |-> res]

NoEnv == Raised(<<>>)
NoRes == [success |-> FALSE, message |-> <<>>, calls |-> <<>>]

Init ==
    /\ groq_client = None
    /\ website_scraped = FALSE
    /\ website_content = NoText
    /\ website_url = <<>>
    /\ messages = <<>>
    /\ chat_history = <<>>
    /\ api_validated = FALSE
    /\ last = Did("init", <<>>, NoEnv, NoRes)
    /\ origin = [messages |-> {}, chat_history |-> {}, dropped |-> FALSE]

\* exchanges and failed exchanges in the display history
Exchanges(msgs) == Len(msgs) \div 2
IsErrorText(content) ==
    content = MsgValidQuestion \/ (Len(content) > 0 /\ Head(content) = "Error: ")
Errors(msgs) == Cardinality({i \in 1..Len(msgs) : IsErrorText(msgs[i].content)})

\* "Validate" button
Validate(api_key_input, resp) ==
    IF ~Falsy(api_key_input)
    THEN LET result == test_groq_api(api_key_input, resp)
         IN  /\ IF result.success
                THEN /\ groq_client' = Groq(api_key_input)
                     /\ api_validated' = TRUE
                ELSE /\ api_validated' = FALSE
                     /\ UNCHANGED groq_client
             /\ last' = Did("validate", api_key_input,
                            IF Len(result.calls) > 0 THEN resp ELSE NoEnv, result)
             /\ UNCHANGED <<website_scraped, website_content, website_url,
                            messages, chat_history>>
    ELSE /\ last' = Did("validate", api_key_input, NoEnv,
                        [success |-> FALSE, message |-> <<"Enter API key first">>,
                         calls |-> <<>>])
         /\ UNCHANGED session

\* a successful scrape replaces the document and keeps the conversation
Scrape_KeepsChat(url_input, fetch) ==
    IF ~api_validated
    THEN /\ last' = Did("scrape", <<>>, NoEnv,
                        [success |-> FALSE, message |-> <<"Validate API key first!">>,
                         calls |-> <<>>])
         /\ UNCHANGED session
    ELSE IF Falsy(url_input)
    THEN /\ last' = Did("scrape", <<>>, NoEnv,
                        [success |-> FALSE, message |-> <<"Enter a URL">>,
                         calls |-> <<>>])
         /\ UNCHANGED session
    ELSE LET result == scrape_website(url_input, fetch)
         IN  /\ IF result.success
                THEN /\ website_scraped' = TRUE
                     /\ website_content' = result.content
                     /\ website_url' = url_input
                     /\ UNCHANGED <<messages, chat_history>>
                ELSE /\ website_scraped' = FALSE
                     /\ UNCHANGED <<website_content, website_url, messages,
                                    chat_history>>
             /\ last' = Did("scrape", <<>>, NoEnv,
                            [success |-> result.success, message |-> result.message,
                             calls |-> <<result.requested>>])
             /\ UNCHANGED <<groq_client, api_validated>>

\* "Scrape Website" button
Scrape(url_input, fetch) ==
    IF ~api_validated
    THEN /\ last' = Did("scrape", <<>>, NoEnv,
                        [success |-> FALSE, message |-> <<"Validate API key first!">>,
                         calls |-> <<>>])
         /\ UNCHANGED session
    ELSE IF Falsy(url_input)
    THEN /\ last' = Did("scrape", <<>>, NoEnv,
                        [success |-> FALSE, message |-> <<"Enter a URL">>,
                         calls |-> <<>>])
         /\ UNCHANGED session
    ELSE LET result == scrape_website(url_input, fetch)
         IN  /\ IF result.success
                THEN /\ website_scraped' = TRUE
                     /\ website_content' = result.content
                     /\ website_url' = url_input
                     /\ messages' = <<>>
                     /\ chat_history' = <<>>
                ELSE /\ website_scraped' = FALSE
                     /\ UNCHANGED <<website_content, website_url, messages,
                                    chat_history>>
             /\ last' = Did("scrape", <<>>, NoEnv,
                            [success |-> result.success, message |-> result.message,
                             calls |-> <<result.requested>>])
             /\ UNCHANGED <<groq_client, api_validated>>

\* "Clear Chat" button
ClearChat ==
    /\ messages' = <<>>
    /\ chat_history' = <<>>
    /\ last' = Did("clear", <<>>, NoEnv, NoRes)
    /\ UNCHANGED <<groq_client, api_validated, website_scraped, website_content,
                   website_url>>

\* "Reset All" button: session_state.clear(), then the rerun initialises again
ResetAll ==
    /\ groq_client' = None
    /\ website_scraped' = FALSE
    /\ website_content' = NoText
    /\ website_url' = <<>>
    /\ messages' = <<>>
    /\ chat_history' = <<>>
    /\ api_validated' = FALSE
    /\ last' = Did("reset", <<>>, NoEnv, NoRes)

\* the chat area is rendered as soon as the key is validated
ChatShown_NoScrapeGate == api_validated

\* the chat area is rendered only in the final else branch of the main content
ChatShown == api_validated /\ website_scraped

\* room left in the display history for one more exchange
Room(failing) ==
    /\ Exchanges(messages) < MaxExchanges
    /\ failing => Errors(messages) < MaxErrors

\* the exchange is recorded whatever the outcome
AskHistory_Always(history, question, result) ==
    LET appended == history \o <<Msg("user", question),
                                 Msg("assistant", result.answer)>>
    IN  IF Len(appended) > HistoryCap
        THEN LastN(appended, HistoryCap)
        ELSE appended

\* the cap cuts at an odd length
AskHistory_OddCap(history, question, result) ==
    IF result.success
    THEN LET appended == history \o <<Msg("user", question),
                                      Msg("assistant", result.answer)>>
         IN  IF Len(appended) > HistoryCap
             THEN LastN(appended, HistoryCap - 1)
             ELSE appended
    ELSE history

\* "Update chat history" of the ask handler: the exchange, then the cap
AskHistory(history, question, result) ==
    IF result.success
    THEN LET appended == history \o <<Msg("user", question),
                                      Msg("assistant", result.answer)>>
         IN  IF Len(appended) > HistoryCap
             THEN LastN(appended, HistoryCap)
             ELSE appended
    ELSE history

\* "Update history" of the quick-question handler: the exchange only
QuickHistory(history, q, result) ==
    IF result.success
    THEN history \o <<Msg("user", q), Msg("assistant", result.answer)>>
    ELSE history

\* "Ask Question" button
AskQuestion(question, resp) ==
    /\ ChatShown
    /\ ~Falsy(question)
    /\ LET result == ask_groq(groq_client, website_url, website_content,
                              question, chat_history, resp)
       IN  /\ Room(~result.success)
           /\ messages' = messages \o <<Msg("user", question),
                                        Msg("assistant", result.answer)>>
           /\ chat_history' = AskHistory(result.history, question, result)
           /\ last' = Did("ask", question,
                          IF Len(result.calls) > 0 THEN resp ELSE NoEnv,
                          [success |-> result.success, message |-> result.answer,
                           calls |-> result.calls])
    /\ UNCHANGED <<groq_client, api_validated, website_scraped, website_content,
                   website_url>>

\* a quick-question button
QuickQuestion(q, resp) ==
    /\ ChatShown
    /\ LET result == ask_groq(groq_client, website_url, website_content,
                              q, chat_history, resp)
       IN  /\ Room(~result.success)
           /\ messages' = messages \o <<Msg("user", q),
                                        Msg("assistant", result.answer)>>
           /\ chat_history' = QuickHistory(result.history, q, result)
           /\ last' = Did("quick", q,
                          IF Len(result.calls) > 0 THEN resp ELSE NoEnv,
                          [success |-> result.success, message |-> result.answer,
                           calls |-> result.calls])
    /\ UNCHANGED <<groq_client, api_validated, website_scraped, website_content,
                   website_url>>

DoValidate == \E k \in Keys : \E r \in SessionTrials(k) : Validate(k, r)
DoScrape == \E u \in SessionUrls : \E f \in SessionFetches(u) : Scrape(u, f)
DoAsk == \E q \in Questions : \E r \in SessionAsks(q) : AskQuestion(q, r)
DoQuick == \E q \in quick_questions : \E r \in SessionAsks(q) : QuickQuestion(q, r)


----------------------------------------------------------------------------
(* The three backend functions called directly (as a test calls them), on  *)
(* inputs of every shape                                                   *)

HistoryEntries == {Msg("user", <<"h", "i">>), Msg("assistant", <<"yes">>)}
Histories == UNION {[1..n -> HistoryEntries] : n \in 0..MaxHist}

Documents == {Truncate(MinChars), Truncate(MaxChars + 1)}

\* a direct call is made before any handler ran
Fresh == last.op = "init"

CallTestGroqApi ==
    /\ Fresh
    /\ \E k \in Keys : \E r \in TrialResponses :
        /\ last' = Did("test_groq_api", k, r, test_groq_api(k, r))
        /\ UNCHANGED session

CallScrapeWebsite ==
    /\ Fresh
    /\ \E u \in Urls \ {<<>>} : \E f \in RequestsGet(RequestUrl(u)) :
        /\ last' = Did("scrape_website", u, f, scrape_website(u, f))
        /\ UNCHANGED session

CallAskGroq ==
    /\ Fresh
    /\ \E q \in Questions : \E h \in Histories :
       \E d \in Documents : \E r \in AskResponses :
        /\ last' = Did("ask_groq", [question |-> q, chat_history |-> h], r,
                       ask_groq(Groq(<<"g", "s", "k">>), UrlHttps, d, q, h, r))
        /\ UNCHANGED session

\* the stored Document: the page's URL and its text
Document == <<website_url, website_content>>

\* origin records, for each of the two lists, the Documents that were stored
\* when the entries the list holds were appended, and whether this step
\* replaced the Document of a conversation that had entries
Origins(before, list, list_) ==
    IF list_ = <<>> THEN {}
    ELSE IF list_ # list THEN before \cup {Document}
    ELSE before

Track ==
    origin' = [messages |-> Origins(origin.messages, messages, messages'),
               chat_history |-> Origins(origin.chat_history, chat_history,
                                        chat_history'),
               dropped |-> (Document' # Document /\ messages # <<>>
                               /\ chat_history # <<>>)]

Next ==
    \/ DoValidate /\ Track
    \/ DoScrape /\ Track
    \/ DoAsk /\ Track
    \/ DoQuick /\ Track
    \/ ClearChat /\ Track
    \/ ResetAll /\ Track
    \/ CallTestGroqApi /\ Track
    \/ CallScrapeWebsite /\ Track
    \/ CallAskGroq /\ Track

Spec == Init /\ [][Next]_vars

----------------------------------------------------------------------------
(* Properties *)

IsAsk(op) == op \in {"ask", "quick"}

\* C1: in every reachable session state chat_history holds at most 8 entries
\* (as claimed; the quick-question handler appends without trimming)
C1_HistoryAtMostCap == Len(chat_history) <= HistoryCap

\* C9: chat_history is user/assistant pairs only: even length, user at the
\* 1st, 3rd, ... entry, assistant at the 2nd, 4th, ..., and no system message
C9_PairsOnly ==
    /\ Len(chat_history) % 2 = 0
    /\ \A i \in 1..Len(chat_history) :
          chat_history[i].role = (IF i % 2 = 1 THEN "user" ELSE "assistant")

\* C9's case: the ask handler has just trimmed a history that had grown past the cap
C9_Witness ==
    /\ last.op = "ask"
    /\ last.res.success
    /\ Len(chat_history) = HistoryCap
    /\ Exchanges(messages) > HistoryCap \div 2
    /\ chat_history[1].content # messages[1].content

\* C2: a scrape that was attempted and failed leaves every session field as
\* it was (as claimed; the handler sets website_scraped to False)
C2_FailedScrapeKeepsState ==
    [][(last'.op = "scrape" /\ Len(last'.res.calls) > 0 /\ ~last'.res.success)
          => session' = session]_vars

\* C3: a failed ask leaves chat_history alone and appends to messages the
\* question and one assistant message with the error text; chat_history gets
\* an exchange only from an ask whose completion succeeded
C3_FailedCompletion ==
    [][/\ (IsAsk(last'.op) /\ ~last'.res.success) =>
             /\ chat_history' = chat_history
             /\ messages' = messages \o <<Msg("user", last'.arg),
                                          Msg("assistant", last'.res.message)>>
             /\ IsErrorText(last'.res.message)
       /\ (Len(chat_history') > 0 /\ chat_history' # chat_history) =>
             /\ IsAsk(last'.op)
             /\ last'.res.success
             /\ Len(last'.res.calls) = 1
             /\ LastN(chat_history', 2) = <<Msg("user", last'.arg),
                                            Msg("assistant", last'.res.message)>>
      ]_vars

\* C3's case: the provider refused a question after earlier exchanges succeeded
C3_Witness ==
    /\ IsAsk(last.op)
    /\ ~last.res.success
    /\ Len(last.res.calls) = 1
    /\ Len(chat_history) > 0
    /\ messages[Len(messages)] = Msg("assistant", <<"Error: ">> \o MsgRateLimit)

\* every atom of s is whitespace (the empty string included)
Blank(s) == \A i \in 1..Len(s) : s[i] \in Whitespace

Min(a, b) == IF a < b THEN a ELSE b

\* C4: what ask_groq sends for a history of length n is one system message,
\* the last min(4, n) history entries in their order, and one user message
\* with the question; a question with something in it is sent once; the
\* history list is left as it was
C4_SentMessages ==
    last.op = "ask_groq" =>
        LET h == last.arg.chat_history
            q == last.arg.question
            n == Len(h)
            k == Min(ContextWindow, n)
        IN  /\ ~Blank(q) => Len(last.res.calls) = 1
            /\ last.res.history = h
            /\ \A c \in 1..Len(last.res.calls) :
                  LET sent == last.res.calls[c]
                  IN  /\ Len(sent) = k + 2
                      /\ sent[1].role = "system"
                      /\ \A i \in 1..k : sent[1 + i] = h[n - k + i]
                      /\ sent[k + 2] = Msg("user", q)

\* C4's case: a 10-entry history whose first four entries differ from its
\* last four, sent with the question "hi"
C4_Witness ==
    /\ last.op = "ask_groq"
    /\ Len(last.arg.chat_history) = 10
    /\ SubSeq(last.arg.chat_history, 1, 4) # SubSeq(last.arg.chat_history, 7, 10)
    /\ last.arg.question = <<"h", "i">>
    /\ Len(last.res.calls) = 1
    /\ Len(last.res.calls[1]) = 6

\* C5: ask_groq fails an empty or whitespace-only question without calling
\* the provider, and for any other question makes exactly one call
C5_EmptyQuestion ==
    last.op = "ask_groq" =>
        IF Blank(last.arg.question)
        THEN /\ ~last.res.success
             /\ last.res.answer = MsgValidQuestion
             /\ last.res.calls = <<>>
        ELSE /\ Len(last.res.calls) = 1
             /\ Len(last.res.calls[1]) >= 2

\* C5's case: the question "   " handed to ask_groq
C5_Witness ==
    /\ last.op = "ask_groq"
    /\ last.arg.question = <<" ", " ", " ">>
    /\ ~last.res.success
    /\ last.res.calls = <<>>

\* a scheme is what stands before "://"
HasScheme(url) ==
    \E i \in 2..(Len(url) - 2) : SubSeq(url, i, i + 2) = <<":", "/", "/">>

\* C8: scrape_website requests the URL as given when it has a scheme, and
\* prefixed with https:// when it has none (as claimed; the code tests whether
\* the URL starts with the four letters http)
C8_UrlNormalized ==
    last.op = "scrape_website" =>
        last.res.requested =
            (IF HasScheme(last.arg) THEN last.arg ELSE HttpsScheme \o last.arg)

\* the provider reports an authentication / unauthorized (401) failure
AuthReported(err) ==
    \E i \in 1..Len(err) : err[i] \in {"authentication", "Authentication", "401"}

\* how the Validate button classifies its key: rejected without a call when
\* empty or whitespace-only, else one trial call whose result decides between
\* valid, InvalidKey and Other(message)
KeyClassified ==
    LET k == last.arg
        r == last.env
        res == last.res
    IN  IF Blank(k)
        THEN /\ ~res.success
             /\ res.calls = <<>>
             /\ res.message \in {MsgEmptyKey, <<"Enter API key first">>}
        ELSE /\ Len(res.calls) = 1
             /\ res.success = r.ok
             /\ res.message =
                    (IF r.ok THEN MsgValidKey
                     ELSE IF AuthReported(r.err) THEN MsgInvalidKey
                     ELSE <<"Error: ">> \o r.err)

C7_TextBounded ==
    /\ (last.op = "scrape_website" /\ last.res.success) =>
          LET n == last.env.chars
              c == last.res.content
          IN  /\ TextLen(c) >= MinChars
              /\ TextLen(c) <= MaxChars + MarkerLen
              /\ n > MaxChars => c = [chars |-> MaxChars, marker |-> TRUE]
              /\ n <= MaxChars => c = [chars |-> n, marker |-> FALSE]
    /\ TextLen(website_content) <= MaxChars + MarkerLen
    /\ website_scraped => TextLen(website_content) >= MinChars

\* C7's case: a page whose cleaned text has 15001 characters
C7_Witness ==
    /\ last.op = "scrape_website"
    /\ last.env = Page(MaxChars + 1)
    /\ last.res.success
    /\ last.res.content.marker

\* C10: a completion for a question is requested only when the key is
\* validated, a client is stored and a non-empty document is scraped; and
\* always api_validated implies a stored client, website_scraped implies a
\* non-empty website_content
C10_Gating ==
    /\ [](/\ api_validated => groq_client.client
          /\ website_scraped => TextLen(website_content) > 0)
    /\ [][(IsAsk(last'.op) /\ Len(last'.res.calls) > 0) =>
             /\ api_validated
             /\ groq_client.client
             /\ website_scraped
             /\ TextLen(website_content) > 0
             /\ last'.res.calls[1][1] =
                    Msg("system", SystemPrompt(website_url, website_content))
         ]_vars

\* C10's case: a question about the page scraped from a.io is sent to the
\* provider
C10_Witness ==
    /\ IsAsk(last.op)
    /\ Len(last.res.calls) = 1
    /\ api_validated
    /\ website_scraped
    /\ website_url = UrlBare

\* C11: a successful scrape leaves both lists empty, so every entry of
\* messages and of chat_history was appended while the Document now stored
\* was the stored one, and what is sent with a question is the stored
\* Document and entries that belong to it
C11_OneDocument ==
    /\ (last.op = "scrape" /\ last.res.success) =>
          (messages = <<>> /\ chat_history = <<>>)
    /\ origin.messages \subseteq {Document}
    /\ origin.chat_history \subseteq {Document}
    /\ (IsAsk(last.op) /\ Len(last.res.calls) > 0) =>
          LET sent == last.res.calls[1]
          IN  /\ sent[1] = Msg("system", SystemPrompt(website_url, website_content))
              /\ \A i \in 2..(Len(sent) - 1) :
                    \E j \in 1..Len(chat_history) : chat_history[j] = sent[i]

\* C11's case: a conversation about one page, then another page is scraped
C11_Witness ==
    /\ last.op = "scrape"
    /\ last.res.success
    /\ origin.dropped
    /\ messages = <<>>
    /\ chat_history = <<>>

====
